---- MODULE Spec2Model ----
(***************************************************************************)
(* Model of MapScreen (app/(tabs)/map.tsx): the viewport-driven session    *)
(* list synchronisation, its debounce timer and the selection card.        *)
(*                                                                         *)
(* Units.  Latitudes, longitudes and angular spans are integers counting   *)
(* hundredths of a degree (0.06 degrees is 6).  Times are integers         *)
(* counting milliseconds; an ISO timestamp is represented by the           *)
(* millisecond instant it denotes.                                         *)
(***************************************************************************)
EXTENDS Integers, Sequences, FiniteSets, TLC

\* ------------------------------------------------------------------ bounds
\* Number of user inputs (viewport-change events and marker taps) in a run.
MaxInputs == 3
\* Granularity of the passage of time, in milliseconds.
TickMs == 225

\* --------------------------------------------------------- program constants
\* Delay of the debounce timer, in milliseconds (setTimeout(..., 450)).
DebounceMs == 450
\* Freshness window of the query, in milliseconds (60 * 60 * 1000).
OneHourMs == 3600000
\* Row cap of the query (.limit(200)).
QueryLimit == 200
\* latitudeDelta / longitudeDelta of the initial region (0.06 degrees).
InitialLatitudeDelta == 6
InitialLongitudeDelta == 6

\* -------------------------------------------------------------- null values
\* selected === null
NoGame == "none"
\* playerCount === null, count === null
NoCount == -1
\* fetchTimer.current === null
NoTimer == 0
\* region === null
NoRegion == [latitude |-> 0, longitude |-> 0, latitudeDelta |-> 0, longitudeDelta |-> 0]
\* data === null
NoData == <<"null">>

\* ------------------------------------------------------------ the environment
\* Rows of the remote "games" table (type Game), keyed by id.  g2 starts
\* exactly one hour before the clock value below and g5 one millisecond
\* earlier; g4 is cancelled; g6 lies east of every viewport.
GameIds == {"g1", "g2", "g3", "g4", "g5", "g6"}

GamesTable ==
    [g \in GameIds |->
        CASE g = "g1" -> [id |-> "g1", lat |-> 3998, lng |-> -7400, starts_at |-> 9000000, status |-> "active"]
          [] g = "g2" -> [id |-> "g2", lat |-> 4002, lng |-> -7400, starts_at |-> 3600000, status |-> "active"]
          [] g = "g3" -> [id |-> "g3", lat |-> 4006, lng |-> -7400, starts_at |-> 7200000, status |-> "active"]
          [] g = "g4" -> [id |-> "g4", lat |-> 4002, lng |-> -7399, starts_at |-> 8000000, status |-> "cancelled"]
          [] g = "g5" -> [id |-> "g5", lat |-> 4002, lng |-> -7401, starts_at |-> 3599999, status |-> "active"]
          [] g = "g6" -> [id |-> "g6", lat |-> 4002, lng |-> -7390, starts_at |-> 8500000, status |-> "active"]]

\* Rows of the remote "game_players" table: number of user_id rows per game_id.
GamePlayers ==
    [g \in GameIds |->
        CASE g = "g1" -> 2
          [] g = "g2" -> 5
          [] g = "g3" -> 3
          [] g = "g4" -> 7
          [] g = "g5" -> 1
          [] g = "g6" -> 4]

\* Positions the device location service can report (loc.coords).
Positions == {[latitude |-> 4000, longitude |-> -7400]}

\* Regions the map surface can report in onRegionChangeComplete.
Viewports ==
    {[latitude |-> 4000, longitude |-> -7400, latitudeDelta |-> 6, longitudeDelta |-> 6],
     [latitude |-> 4004, longitude |-> -7400, latitudeDelta |-> 6, longitudeDelta |-> 6]}

\* Values Date.now() can return when a query is built.
Clock == {7200000}

\* ---------------------------------------------------------- pure functions
\* Variant of regionToBounds: the latitude span is used on both axes.
regionToBounds_OneSpan(r) ==
    [minLat |-> r.latitude - r.latitudeDelta \div 2,
     maxLat |-> r.latitude + r.latitudeDelta \div 2,
     minLng |-> r.longitude - r.latitudeDelta \div 2,
     maxLng |-> r.longitude + r.latitudeDelta \div 2]

\* regionToBounds(r)
regionToBounds(r) ==
    [minLat |-> r.latitude - r.latitudeDelta \div 2,
     maxLat |-> r.latitude + r.latitudeDelta \div 2,
     minLng |-> r.longitude - r.longitudeDelta \div 2,
     maxLng |-> r.longitude + r.longitudeDelta \div 2]

\* oneHourAgo = new Date(Date.now() - 60 * 60 * 1000).toISOString()
oneHourAgo(now) == now - OneHourMs

\* Variant of BuildQuery: the start-time cutoff is two hours before now.
BuildQuery_TwoHours(r, now) ==
    [status |-> "active",
     startsAtGte |-> now - 2 * OneHourMs,
     bounds |-> regionToBounds(r),
     limit |-> QueryLimit]

\* The request built by the chain .from("games").select(...).eq(...)...limit(200)
BuildQuery(r, now) ==
    [status |-> "active",
     startsAtGte |-> oneHourAgo(now),
     bounds |-> regionToBounds(r),
     limit |-> QueryLimit]

\* Row filter of a request: .eq("status").gte("starts_at").gte/lte("lat").gte/lte("lng")
Matches(q, row) ==
    /\ row.status = q.status
    /\ row.starts_at >= q.startsAtGte
    /\ row.lat >= q.bounds.minLat
    /\ row.lat <= q.bounds.maxLat
    /\ row.lng >= q.bounds.minLng
    /\ row.lng <= q.bounds.maxLng

\* The ids of S sorted by starts_at, ascending.
RECURSIVE SortByStartsAt(_)
SortByStartsAt(S) ==
    IF S = {} THEN <<>>
    ELSE LET first == CHOOSE g \in S :
                         \A h \in S : GamesTable[g].starts_at <= GamesTable[h].starts_at
         IN  <<first>> \o SortByStartsAt(S \ {first})

\* The whole table in starts_at order.
GamesByStartsAt == SortByStartsAt(GameIds)

\* .order("starts_at", { ascending: true }): the rows of S in starts_at order.
OrderByStartsAt(S) ==
    LET InS(g) == g \in S
    IN  SelectSeq(GamesByStartsAt, InS)

\* .limit(n)
Limit(rows, n) == IF Len(rows) <= n THEN rows ELSE SubSeq(rows, 1, n)

\* The rows the store returns for a request (ids of the Game rows).
ExecuteQuery(q) ==
    Limit(OrderByStartsAt({g \in GameIds : Matches(q, GamesTable[g])}), q.limit)

\* (data ?? []) as Game[]
DataOrEmpty(data) == IF data = NoData THEN <<>> ELSE data

\* count ?? 0
CountOrZero(count) == IF count = NoCount THEN 0 ELSE count

\* ------------------------------------------------------------------- state
VARIABLES
    loadingLocation,   \* useState(true)
    region,            \* useState<Region | null>(null)
    loadingGames,      \* useState(false)
    games,             \* useState<Game[]>([]): ids of the visible rows, in order
    selected,          \* useState<Game | null>(null): id of the selected row
    playerCount,       \* useState<number | null>(null)
    loadingCount,      \* useState(false)
    fetchTimer,        \* useRef(null): handle of the last timer armed
    timers,            \* timers armed in the runtime and not yet fired or cleared
    effect,            \* position of the mount effect's async function
    fetches,           \* calls of fetchGamesInRegion that have not returned
    counts,            \* calls of onSelectGame that have not returned
    alert,             \* title of the Alert.alert dialog the last step raised
    stats,             \* history: counters of events, taps, bursts and timer calls,
                       \* the permission status the device reported, and the
                       \* caller whose call issued the first query of the run;
                       \* initial is how far the mount effect's call has got:
                       \* "none", "waiting" (made, no query yet), "no session"
                       \* (returned at "if (!ok) return") or "issued"
    countOf,           \* history: the game whose count response set playerCount
    lastOp,            \* history: the step taken last
    probe,             \* the region handed to regionToBounds on its own
    probed             \* the bounds regionToBounds returned for probe

vars == <<loadingLocation, region, loadingGames, games, selected, playerCount,
          loadingCount, fetchTimer, timers, effect, fetches, counts, alert,
          stats, countOf, lastOp, probe, probed>>

\* No Alert.alert call in the step.
NoAlert == "none"

\* The step taken last, for the steps that end an await of fetchGamesInRegion,
\* of onSelectGame or of the permission request.  arg is what the awaited
\* call produced, was the selection concerned (the selection before the query
\* was sent, the game whose count was asked), shown the visible list before
\* the step and data the rows a response carried.
Op(name, arg, was, shown, data) ==
    [op |-> name, arg |-> arg, was |-> was, shown |-> shown, data |-> data]

\* Any other step.
OtherOp == Op("other", "", NoGame, <<>>, <<>>)

\* No bounds computed yet.
NoBounds == [minLat |-> 0, maxLat |-> 0, minLng |-> 0, maxLng |-> 0]

Init ==
    /\ loadingLocation = TRUE
    /\ region = NoRegion
    /\ loadingGames = FALSE
    /\ games = <<>>
    /\ selected = NoGame
    /\ playerCount = NoCount
    /\ loadingCount = FALSE
    /\ fetchTimer = NoTimer
    /\ timers = {}
    /\ effect = "permission"
    /\ fetches = {}
    /\ counts = {}
    /\ alert = NoAlert
    /\ stats = [events |-> 0, taps |-> 0, bursts |-> 0, timerCalls |-> 0,
                permission |-> "pending", firstQuery |-> "none",
                initial |-> "none"]
    /\ countOf = NoGame
    /\ lastOp = OtherOp
    /\ probe = NoRegion
    /\ probed = NoBounds

\* ------------------------------------------------------ fetchGamesInRegion
\* The request of a call that has not yet built one.
NoQuery == [status |-> "", startsAtGte |-> 0, bounds |-> regionToBounds(NoRegion), limit |-> 0]

\* A new call fetchGamesInRegion(r), suspended at "await ensureAuthedOrWarn()"
\* with ensureAuthedOrWarn itself suspended at "await getSession()" (pc "auth").
\* id names the caller: 0 is the mount effect, n > 0 the n-th timer armed.
\* ok is what ensureAuthedOrWarn returned, once it has (pc "checked").
\* ev is the region state when the call was made; newest marks the call whose
\* query is the most recently issued one; at is the Date.now() value read when
\* the query was built (0 before that).
NewFetch(id, r) ==
    [id |-> id, r |-> r, pc |-> "auth", ok |-> FALSE, q |-> NoQuery, ev |-> region,
     newest |-> FALSE, at |-> 0]

\* Variant of BlockedByAuth: the call goes on without an auth session.
BlockedByAuth_Never(ok) == FALSE

\* if (!ok) return;
BlockedByAuth(ok) == ~ok

\* Variant of SelectionOnIssue: the selected session is kept, its count cleared.
SelectionOnIssue_KeepSelected(sel, cnt) == [selected |-> sel, playerCount |-> NoCount]

\* setSelected(null); setPlayerCount(null);  before the query is sent
SelectionOnIssue(sel, cnt) == [selected |-> NoGame, playerCount |-> NoCount]

\* Variant of LoadingGamesAfterResponse: the flag is cleared only on success.
LoadingGamesAfterResponse_OnlyOnSuccess(error) == error

\* setLoadingGames(false) after the await of the query
LoadingGamesAfterResponse(error) == FALSE

\* Variant of ReconcileGames: a failed query empties the visible list.
ReconcileGames_ClearOnError(cur, error, data) == IF error THEN <<>> ELSE DataOrEmpty(data)

\* Variant of ReconcileGames: the returned rows are added to the visible list.
ReconcileGames_Merge(cur, error, data) ==
    IF error THEN cur
    ELSE cur \o SelectSeq(DataOrEmpty(data), LAMBDA g : \A i \in 1..Len(cur) : cur[i] # g)

\* if (error) { ...; return; }  setGames((data ?? []) as Game[]);
ReconcileGames(cur, error, data) == IF error THEN cur ELSE DataOrEmpty(data)

\* if (error) { ...; Alert.alert("Error", error.message); return; }
AlertAfterResponse(error) == IF error THEN "Error" ELSE NoAlert

\* Variant of FetchesAfterResponse: a failed call starts over at its auth check.
FetchesAfterResponse_RetryOnError(fs, f, error) ==
    IF error THEN (fs \ {f}) \cup {[f EXCEPT !.pc = "auth", !.ok = FALSE, !.q = NoQuery,
                                             !.newest = FALSE, !.at = 0]}
    ELSE fs \ {f}

\* fetchGamesInRegion returns after the response, on the error return or at
\* its end: the call is over.
FetchesAfterResponse(fs, f, error) == fs \ {f}

\* if (!data.session) { Alert.alert("Not logged in", ...); return false; }
AlertAfterSession(ok) == IF ok THEN NoAlert ELSE "Not logged in"

\* supabase.auth.getSession() resolves for call f and ensureAuthedOrWarn runs
\* to its return: ok iff data.session is set.  fetchGamesInRegion stays
\* suspended at "await ensureAuthedOrWarn()" until a later job resumes it.
ensureAuthedOrWarn(f, ok) ==
    /\ f \in fetches
    /\ f.pc = "auth"
    /\ fetches' = (fetches \ {f}) \cup {[f EXCEPT !.pc = "checked", !.ok = ok]}
    /\ alert' = AlertAfterSession(ok)
    /\ lastOp' = OtherOp
    /\ UNCHANGED <<loadingLocation, region, loadingGames, games, selected, playerCount,
                   loadingCount, fetchTimer, timers, effect, counts, stats, countOf>>
    /\ UNCHANGED <<probe, probed>>

\* fetchGamesInRegion of call f resumes after "await ensureAuthedOrWarn()" with
\* the value f.ok and runs to its return or to the await of the query.
AuthResolve(f, now) ==
    /\ f \in fetches
    /\ f.pc = "checked"
    /\ lastOp' = Op("AuthResolve", IF f.ok THEN "session" ELSE "no session", selected,
                     <<>>, <<>>)
    /\ IF BlockedByAuth(f.ok)
       THEN /\ alert' = NoAlert
            /\ fetches' = fetches \ {f}
            /\ stats' = [stats EXCEPT !.initial = IF f.id = 0 THEN "no session" ELSE @]
            /\ UNCHANGED <<loadingGames, selected, playerCount>>
       ELSE /\ loadingGames' = TRUE
            /\ selected' = SelectionOnIssue(selected, playerCount).selected
            /\ playerCount' = SelectionOnIssue(selected, playerCount).playerCount
            /\ fetches' = {[g EXCEPT !.newest = FALSE] : g \in fetches \ {f}} \cup
                   {[f EXCEPT !.pc = "query", !.q = BuildQuery(f.r, now), !.newest = TRUE,
                              !.at = now]}
            /\ stats' = [stats EXCEPT !.firstQuery = IF @ # "none" THEN @
                                                     ELSE IF f.id = 0 THEN "effect"
                                                     ELSE "timer",
                                      !.initial = IF f.id = 0 THEN "issued" ELSE @]
            /\ alert' = NoAlert
    /\ UNCHANGED <<loadingLocation, region, games, loadingCount, fetchTimer, timers,
                   effect, counts, countOf>>
    /\ UNCHANGED <<probe, probed>>

\* The store answers the query of call f: rows, null data, or an error.
QueryResponse(f, kind) ==
    /\ f \in fetches
    /\ f.pc = "query"
    /\ LET error == (kind = "error")
           data  == IF kind = "rows" THEN ExecuteQuery(f.q) ELSE NoData
       IN  /\ fetches' = FetchesAfterResponse(fetches, f, error)
           /\ loadingGames' = LoadingGamesAfterResponse(error)
           /\ alert' = AlertAfterResponse(error)
           /\ games' = ReconcileGames(games, error, data)
           /\ lastOp' = Op("QueryResponse", kind, NoGame, games, DataOrEmpty(data))
    /\ UNCHANGED <<loadingLocation, region, selected, playerCount, loadingCount,
                   fetchTimer, timers, effect, counts, stats, countOf>>
    /\ UNCHANGED <<probe, probed>>

\* ------------------------------------------------------------ mount effect
\* Outcomes of Location.requestForegroundPermissionsAsync()
PermissionStatus == {"granted", "denied", "undetermined"}

\* Variant of PermissionBlocks: the effect goes on whatever the status.
PermissionBlocks_Never(status) == FALSE

\* if (status !== "granted") { ...; return; }
PermissionBlocks(status) == status # "granted"

\* Variant of InitialRegion: latitude and longitude are exchanged.
InitialRegion_Swapped(coords) ==
    [latitude |-> coords.longitude, longitude |-> coords.latitude,
     latitudeDelta |-> InitialLatitudeDelta, longitudeDelta |-> InitialLongitudeDelta]

\* const initial: Region = { latitude: loc.coords.latitude, ... }
InitialRegion(coords) ==
    [latitude |-> coords.latitude, longitude |-> coords.longitude,
     latitudeDelta |-> InitialLatitudeDelta, longitudeDelta |-> InitialLongitudeDelta]

\* Location.requestForegroundPermissionsAsync() resolves with status.
PermissionResolved(status) ==
    /\ effect = "permission"
    /\ lastOp' = Op("PermissionResolved", status, NoGame, <<>>, <<>>)
    /\ stats' = [stats EXCEPT !.permission = status]
    /\ IF PermissionBlocks(status)
       THEN /\ loadingLocation' = FALSE
            /\ alert' = "Location needed"
            /\ effect' = "returned"
       ELSE /\ effect' = "position"
            /\ alert' = NoAlert
            /\ UNCHANGED loadingLocation
    /\ UNCHANGED <<region, loadingGames, games, selected, playerCount, loadingCount,
                   fetchTimer, timers, fetches, counts, countOf>>
    /\ UNCHANGED <<probe, probed>>

\* Location.getCurrentPositionAsync({}) resolves with loc.coords = coords.
PositionResolved(coords) ==
    /\ effect = "position"
    /\ region' = InitialRegion(coords)
    /\ loadingLocation' = FALSE
    /\ fetches' = fetches \cup
           {[NewFetch(0, InitialRegion(coords)) EXCEPT !.ev = InitialRegion(coords)]}
    /\ effect' = "fetching"
    /\ stats' = [stats EXCEPT !.initial = "waiting"]
    /\ alert' = NoAlert
    /\ lastOp' = OtherOp
    /\ UNCHANGED <<loadingGames, games, selected, playerCount, loadingCount,
                   fetchTimer, timers, counts, countOf>>
    /\ UNCHANGED <<probe, probed>>

\* Location.getCurrentPositionAsync({}) rejects: the async function ends there.
PositionRejected ==
    /\ effect = "position"
    /\ effect' = "rejected"
    /\ alert' = NoAlert
    /\ lastOp' = OtherOp
    /\ UNCHANGED <<loadingLocation, region, loadingGames, games, selected, playerCount,
                   loadingCount, fetchTimer, timers, fetches, counts, stats,
                   countOf>>
    /\ UNCHANGED <<probe, probed>>

\* if (loadingLocation || !region) return <spinner>: the map, its markers and
\* the selection card are mounted only past this branch.
MapRendered == ~loadingLocation /\ region # NoRegion

\* ------------------------------------------------------------ scheduleFetch
\* clearTimeout(id)
clearTimeout(ts, id) == {t \in ts : t.id # id}

\* setTimeout(() => fetchGamesInRegion(r)..., 450) returning handle id
setTimeout(ts, id, r) == ts \cup {[id |-> id, r |-> r, left |-> DebounceMs]}

\* Variant of scheduleFetch: the previous timer is not cleared.
scheduleFetch_NoClear(ts, current, id, r) == setTimeout(ts, id, r)

\* Variant of scheduleFetch: an armed timer is left as it is (its delay and its
\* region are those of the first event), a new one is armed only when none is.
scheduleFetch_KeepFirst(ts, current, id, r) ==
    IF ts # {} THEN ts ELSE setTimeout(ts, id, r)

\* if (fetchTimer.current) clearTimeout(fetchTimer.current);
\* fetchTimer.current = setTimeout(...)
scheduleFetch(ts, current, id, r) ==
    setTimeout(IF current # NoTimer THEN clearTimeout(ts, current) ELSE ts, id, r)

\* onRegionChangeComplete={(r) => { setRegion(r); scheduleFetch(r); }}
onRegionChangeComplete(r) ==
    /\ MapRendered
    /\ stats.events + stats.taps < MaxInputs
    /\ region' = r
    /\ timers' = scheduleFetch(timers, fetchTimer, stats.events + 1, r)
    /\ fetchTimer' = stats.events + 1
    /\ stats' = [stats EXCEPT !.events = @ + 1,
                              !.bursts = @ + (IF timers = {} THEN 1 ELSE 0)]
    /\ alert' = NoAlert
    /\ lastOp' = OtherOp
    /\ UNCHANGED <<loadingLocation, loadingGames, games, selected, playerCount,
                   loadingCount, effect, fetches, counts, countOf>>
    /\ UNCHANGED <<probe, probed>>

\* Time passes by TickMs while some armed timer is not yet due.
Tick ==
    /\ \E t \in timers : t.left > 0
    /\ timers' = {[t EXCEPT !.left = IF t.left > TickMs THEN t.left - TickMs ELSE 0] :
                     t \in timers}
    /\ alert' = NoAlert
    /\ lastOp' = OtherOp
    /\ UNCHANGED <<loadingLocation, region, loadingGames, games, selected, playerCount,
                   loadingCount, fetchTimer, effect, fetches, counts, stats,
                   countOf>>
    /\ UNCHANGED <<probe, probed>>

\* The runtime runs the callback of the due timer t: fetchGamesInRegion(r).catch(...)
TimerFire(t) ==
    /\ t \in timers
    /\ t.left = 0
    /\ timers' = timers \ {t}
    /\ fetches' = fetches \cup {NewFetch(t.id, t.r)}
    /\ stats' = [stats EXCEPT !.timerCalls = @ + 1]
    /\ alert' = NoAlert
    /\ lastOp' = OtherOp
    /\ UNCHANGED <<loadingLocation, region, loadingGames, games, selected, playerCount,
                   loadingCount, fetchTimer, effect, counts, countOf>>
    /\ UNCHANGED <<probe, probed>>

\* ------------------------------------------------------------- onSelectGame
\* setLoadingCount(false) after the await of the count query
LoadingCountAfterResponse(error) == FALSE

\* Variant of CountAfterResponse: a failed count query stores zero.
CountAfterResponse_ZeroOnError(error, count) == CountOrZero(count)

\* if (error) { setPlayerCount(null); return; }  setPlayerCount(count ?? 0);
CountAfterResponse(error, count) == IF error THEN NoCount ELSE CountOrZero(count)

\* Marker onPress={() => onSelectGame(g)} up to the await of the count query.
onSelectGame(g) ==
    /\ MapRendered
    /\ \E i \in 1..Len(games) : games[i] = g
    /\ stats.events + stats.taps < MaxInputs
    /\ selected' = g
    /\ playerCount' = NoCount
    /\ loadingCount' = TRUE
    /\ counts' = counts \cup {[id |-> stats.taps + 1, g |-> g]}
    /\ stats' = [stats EXCEPT !.taps = @ + 1]
    /\ alert' = NoAlert
    /\ lastOp' = OtherOp
    /\ UNCHANGED <<loadingLocation, region, loadingGames, games, fetchTimer, timers,
                   effect, fetches, countOf>>
    /\ UNCHANGED <<probe, probed>>

\* The store answers the count query of call c: a count, a null count, or an error.
CountResponse(c, kind) ==
    /\ c \in counts
    /\ LET error == (kind = "error")
           count == IF kind = "count" THEN GamePlayers[c.g] ELSE NoCount
       IN  /\ loadingCount' = LoadingCountAfterResponse(error)
           /\ playerCount' = CountAfterResponse(error, count)
           /\ countOf' = IF error THEN NoGame ELSE c.g
    /\ counts' = counts \ {c}
    /\ alert' = NoAlert
    /\ lastOp' = Op("CountResponse", kind, c.g, <<>>, <<>>)
    /\ UNCHANGED <<loadingLocation, region, loadingGames, games, selected, fetchTimer,
                   timers, effect, fetches, stats>>
    /\ UNCHANGED <<probe, probed>>

\* Join: onPress={() => Alert.alert("Next step", ...)}
Join ==
    /\ MapRendered
    /\ selected # NoGame
    /\ alert' = "Next step"
    /\ lastOp' = OtherOp
    /\ UNCHANGED <<loadingLocation, region, loadingGames, games, selected, playerCount,
                   loadingCount, fetchTimer, timers, effect, fetches, counts,
                   stats, countOf>>
    /\ UNCHANGED <<probe, probed>>

\* Close: onPress={() => setSelected(null)}
Close ==
    /\ MapRendered
    /\ selected # NoGame
    /\ selected' = NoGame
    /\ alert' = NoAlert
    /\ lastOp' = OtherOp
    /\ UNCHANGED <<loadingLocation, region, loadingGames, games, playerCount,
                   loadingCount, fetchTimer, timers, effect, fetches, counts,
                   stats, countOf>>
    /\ UNCHANGED <<probe, probed>>

\* ------------------------------------------------------------ specification
\* Outcomes of the session-list query and of the count query.
QueryOutcomes == {"rows", "null", "error"}
CountOutcomes == {"count", "null", "error"}

Next ==
    \/ \E status \in PermissionStatus : PermissionResolved(status)
    \/ \E coords \in Positions : PositionResolved(coords)
    \/ PositionRejected
    \/ \E r \in Viewports : onRegionChangeComplete(r)
    \/ Tick
    \/ \E t \in timers : TimerFire(t)
    \/ \E f \in fetches, ok \in BOOLEAN : ensureAuthedOrWarn(f, ok)
    \/ \E f \in fetches, now \in Clock : AuthResolve(f, now)
    \/ \E f \in fetches, kind \in QueryOutcomes : QueryResponse(f, kind)
    \/ \E g \in GameIds : onSelectGame(g)
    \/ \E c \in counts, kind \in CountOutcomes : CountResponse(c, kind)
    \/ Close
    \/ Join

Spec == Init /\ [][Next]_vars

\* ------------------------------------------------------------------ claims
\* Identifiers of a set of calls or timers.
Ids(S) == {x.id : x \in S}

\* Calls of fetchGamesInRegion whose query is at the store.
InFlightQueries == {f \in fetches : f.pc = "query"}

\* Every finished burst of viewport events (each event arriving before the
\* timer of the previous one fired, then the timer firing) has made one call
\* of fetchGamesInRegion, an unfinished one none.
OneCallPerBurst == stats.timerCalls = stats.bursts - (IF timers # {} THEN 1 ELSE 0)

\* A step that sends a query is a step that resumes a call after its auth check.
OnlyAuthStepsIssue ==
    \A f \in InFlightQueries' : f \in InFlightQueries \/ lastOp'.op = "AuthResolve"

\* C1 as claimed: a burst of viewport events, each arriving before the timer
\* of the previous one fired, followed by the timer firing, issues exactly one
\* session-list query, for the region of the last event of the burst.
C1_ExactlyOneQueryPerBurst ==
    [][/\ OneCallPerBurst'
       /\ OnlyAuthStepsIssue
       /\ \A f \in fetches :
            (f.id > 0 /\ f.pc = "checked" /\ f \notin fetches')
                => \E g \in InFlightQueries' :
                      /\ g.id = f.id
                      /\ g.q.bounds = regionToBounds(f.ev)]_vars

\* C1 amended: such a burst makes exactly one call of fetchGamesInRegion, for
\* the region of the last event; that call issues exactly one query, for that
\* region, when the auth check found a session, and none when it found none
\* (the "Not logged in" alert was raised when the session was read).  No other
\* step issues a query.
C1_OneCallPerBurst ==
    [][/\ OneCallPerBurst'
       /\ OnlyAuthStepsIssue
       /\ \A f \in fetches :
            (f.pc = "auth" /\ f \notin fetches') =>
                \E g \in fetches' :
                    /\ g = [f EXCEPT !.pc = "checked", !.ok = g.ok]
                    /\ alert' = (IF g.ok THEN NoAlert ELSE "Not logged in")
       /\ \A t \in timers' : t.r = region'
       /\ \A f \in fetches' : f.id > 0 => f.r = f.ev
       /\ \A f \in fetches :
            (f.id > 0 /\ f.pc = "checked" /\ f \notin fetches')
                => IF lastOp'.arg = "session"
                   THEN /\ \E g \in InFlightQueries' :
                              /\ g.id = f.id
                              /\ g.q.bounds = regionToBounds(f.ev)
                        /\ Cardinality(InFlightQueries') = Cardinality(InFlightQueries) + 1
                   ELSE /\ InFlightQueries' = InFlightQueries
                        /\ \A g \in fetches' : g.id # f.id]_vars

\* C1 witness: two events in one burst, the timer fired once, and the query of
\* that call is at the store.
C1_Witness ==
    /\ stats.events = 2
    /\ stats.bursts = 1
    /\ stats.timerCalls = 1
    /\ \E f \in InFlightQueries : f.id = 2 /\ f.r = region /\ f.r # InitialRegion(CHOOSE c \in Positions : TRUE)

\* C2 as claimed: the response of a query that is not the most recently issued
\* one is discarded, it never changes the visible session list.
C2_LastRequestWins ==
    [][\A f \in InFlightQueries : (~f.newest /\ f \notin fetches') => games' = games]_vars

\* C3 as claimed: while a session is selected, a stored player count is the
\* count of that session, and the card shows the loading state while the count
\* fetch of that session is outstanding.
C3_CountBelongsToSelection ==
    selected # NoGame =>
        /\ playerCount # NoCount => countOf = selected
        /\ (\E c \in counts : c.id = stats.taps /\ c.g = selected) => loadingCount

\* C4: after a session-list query completed with an error, the visible list is
\* what it was before the response, the "Error" alert is raised and the
\* games-loading flag is false.
C4_QueryErrorKeepsList ==
    (lastOp.op = "QueryResponse" /\ lastOp.arg = "error") =>
        /\ games = lastOp.shown
        /\ alert = "Error"
        /\ loadingGames = FALSE

\* C4 witness: a query failed while sessions were shown.
C4_Witness ==
    /\ lastOp.op = "QueryResponse"
    /\ lastOp.arg = "error"
    /\ lastOp.shown # <<>>

\* C5: at most one debounce timer is armed and unfired, and it is the one
\* whose handle fetchTimer holds: a superseded timer is never armed, so it
\* never fires.
C5_AtMostOneTimer ==
    /\ Cardinality(timers) <= 1
    /\ \A t \in timers : t.id = fetchTimer

\* C5 witness: a second event arrived while the timer of the first was armed,
\* and one timer is armed.
C5_Witness ==
    /\ stats.events >= 2
    /\ stats.bursts = 1
    /\ stats.timerCalls = 0
    /\ Cardinality(timers) = 1

\* C6: in the state in which a session-list query has just been sent, the
\* selected session is null and the player count is null.
C6_SelectionClearedOnIssue ==
    (lastOp.op = "AuthResolve" /\ lastOp.arg = "session") =>
        /\ \E f \in InFlightQueries : f.newest
        /\ selected = NoGame
        /\ playerCount = NoCount

\* C6 witness: a query has just been sent while a session was selected.
C6_Witness ==
    /\ lastOp.op = "AuthResolve"
    /\ lastOp.arg = "session"
    /\ lastOp.was # NoGame

\* The calls of fs whose auth check has found no session.
Unauthed(fs) == {f \in fs : f.pc = "checked" /\ ~f.ok}

\* C7: the step in which the auth check of a call finds no session raises the
\* "Not logged in" alert, and the step in which that call resumes ends it;
\* both send no query and leave the visible list, the selection, the player
\* count and the games-loading flag unchanged.  A call whose auth check found
\* no session never has a query at the store.
C7_NoSessionBlocksQuery ==
    [][/\ Ids(Unauthed(fetches')) \ Ids(Unauthed(fetches)) # {} =>
             /\ alert' = "Not logged in"
             /\ InFlightQueries' = InFlightQueries
             /\ UNCHANGED <<games, selected, playerCount, loadingGames>>
       /\ Ids(Unauthed(fetches)) \ Ids(Unauthed(fetches')) # {} =>
             /\ lastOp'.op = "AuthResolve"
             /\ lastOp'.arg = "no session"
             /\ InFlightQueries' = InFlightQueries
             /\ Cardinality(fetches') = Cardinality(fetches) - 1
             /\ UNCHANGED <<games, selected, playerCount, loadingGames>>]_vars

\* C7 witness: the auth check found no session while sessions were shown and
\* one of them was selected.
C7_Witness ==
    /\ lastOp.op = "AuthResolve"
    /\ lastOp.arg = "no session"
    /\ games # <<>>
    /\ selected # NoGame

\* C8: once location permission was not granted, there is no viewport, no
\* call of fetchGamesInRegion, no timer and no viewport event, in every
\* later state.
C8_PermissionDeniedHalts ==
    stats.permission \in PermissionStatus \ {"granted"} =>
        /\ region = NoRegion
        /\ effect = "returned"
        /\ fetches = {}
        /\ timers = {}
        /\ fetchTimer = NoTimer
        /\ stats.events = 0
        /\ games = <<>>
        /\ ~MapRendered

\* C8 witness: permission was denied.
C8_Witness ==
    /\ stats.permission = "denied"
    /\ loadingLocation = FALSE
    /\ alert = "Location needed"

\* C9: after a session-list query succeeded, the visible list is the returned
\* rows, in the returned order.
C9_SuccessReplacesList ==
    (lastOp.op = "QueryResponse" /\ lastOp.arg # "error") => games = lastOp.data

\* C9 witness: a query returned two rows while a session that is not among
\* them was shown.
C9_Witness ==
    /\ lastOp.op = "QueryResponse"
    /\ lastOp.arg = "rows"
    /\ Len(lastOp.data) = 2
    /\ \E i \in 1..Len(lastOp.shown) :
          \A j \in 1..Len(lastOp.data) : lastOp.shown[i] # lastOp.data[j]

\* C10: after the count fetch of the current selection returned, the
\* count-loading flag is false and no alert is raised; the player count is
\* null if the fetch failed and the returned count (zero for a null count) if
\* it succeeded.
C10_CountResponse ==
    (lastOp.op = "CountResponse" /\ lastOp.was = selected) =>
        /\ loadingCount = FALSE
        /\ alert = NoAlert
        /\ lastOp.arg = "error" => playerCount = NoCount
        /\ lastOp.arg = "count" => playerCount = GamePlayers[selected]
        /\ lastOp.arg = "null" => playerCount = 0

\* C10 witness: the count fetch of the current selection failed.
C10_Witness ==
    /\ lastOp.op = "CountResponse"
    /\ lastOp.arg = "error"
    /\ lastOp.was = selected

\* C11 as claimed: a Close step (the selection goes from a session to null
\* outside fetchGamesInRegion) leaves the player count null and the
\* count-loading flag false.
C11_CloseClearsSelection ==
    [][(selected # NoGame /\ selected' = NoGame /\ lastOp'.op # "AuthResolve") =>
          /\ playerCount' = NoCount
          /\ loadingCount' = FALSE]_vars

\* C12: no automatic retry.  A call of fetchGamesInRegion starts only in the
\* step of the location success or in the firing of one timer, and sends at
\* most the one query that follows its auth check; a count fetch starts only
\* in a marker tap; a timer is armed only by a viewport event; and a step in
\* which a response (failed or not) arrives ends that call and starts no
\* call, no query, no count fetch and no timer.
C12_NoAutomaticRetry ==
    [][/\ \A f \in fetches' :
            f.id \notin Ids(fetches) =>
                /\ f.pc = "auth"
                /\ Cardinality(fetches') = Cardinality(fetches) + 1
                /\ IF f.id = 0
                   THEN effect = "position" /\ effect' = "fetching"
                   ELSE \E t \in timers : t.id = f.id /\ t.left = 0 /\ t \notin timers'
       /\ \A f \in InFlightQueries' :
            f.id \notin Ids(InFlightQueries) =>
                \E g \in fetches : g.id = f.id /\ g.pc = "checked" /\ g.ok
       /\ \A c \in counts' :
            c \notin counts =>
                /\ stats'.taps = stats.taps + 1
                /\ Cardinality(counts') = Cardinality(counts) + 1
       /\ \A t \in timers' : t.id \notin Ids(timers) => stats'.events = stats.events + 1
       /\ lastOp'.op \in {"QueryResponse", "CountResponse"} =>
            /\ fetches' \subseteq fetches
            /\ counts' \subseteq counts
            /\ timers' = timers
            /\ Cardinality(fetches') + Cardinality(counts')
                  = Cardinality(fetches) + Cardinality(counts) - 1]_vars

\* C12 witness: a query has just failed and no call, count fetch or timer is
\* left.
C12_Witness ==
    /\ lastOp.op = "QueryResponse"
    /\ lastOp.arg = "error"
    /\ fetches = {}
    /\ counts = {}
    /\ timers = {}

\* Row g lies in the bounding box of viewport r: within half a span of the
\* centre on each axis (written without division).
InViewport(g, r) ==
    /\ 2 * GamesTable[g].lat >= 2 * r.latitude - r.latitudeDelta
    /\ 2 * GamesTable[g].lat <= 2 * r.latitude + r.latitudeDelta
    /\ 2 * GamesTable[g].lng >= 2 * r.longitude - r.longitudeDelta
    /\ 2 * GamesTable[g].lng <= 2 * r.longitude + r.longitudeDelta

\* C13: every row the store returns for a query in flight, issued at time
\* f.at for viewport f.r, is active, starts no earlier than one hour before
\* f.at, and lies inside the bounding box of f.r.
C13_QueryFiltersRows ==
    \A f \in InFlightQueries :
        LET rows == ExecuteQuery(f.q)
        IN  \A i \in 1..Len(rows) :
                /\ GamesTable[rows[i]].status = "active"
                /\ GamesTable[rows[i]].starts_at >= f.at - 3600000
                /\ InViewport(rows[i], f.r)

\* C13 witness: a query in flight returns g2 (which starts exactly one hour
\* before the issue time) and g1, while the table also holds a cancelled row
\* (g4), a row one millisecond too old (g5) and rows outside the box (g3, g6).
C13_Witness ==
    \E f \in InFlightQueries :
        /\ f.at = 7200000
        /\ f.r.latitude = 4000
        /\ ExecuteQuery(f.q) = <<"g2", "g1">>

\* ------------------------------------------------- regionToBounds on its own
\* Centres and spans handed to regionToBounds, in hundredths of a degree: the
\* poles, the antimeridian, the equator and an ordinary place; spans from a
\* city block to the whole globe, and one negative span.  Spans are even, so
\* that half a span is a whole number of hundredths.
ProbeLatitudes == {-9000, -8997, 0, 4000, 9000}

ProbeLongitudes == {-18000, -7400, 0, 17999, 18000}

ProbeSpans == {-2, 2, 6, 18000, 36000}

ProbeRegions ==
    [latitude : ProbeLatitudes, longitude : ProbeLongitudes,
     latitudeDelta : ProbeSpans, longitudeDelta : ProbeSpans]

\* The screen is as after construction and a region is picked as the argument.
BoundsInit ==
    /\ loadingLocation = TRUE
    /\ region = NoRegion
    /\ loadingGames = FALSE
    /\ games = <<>>
    /\ selected = NoGame
    /\ playerCount = NoCount
    /\ loadingCount = FALSE
    /\ fetchTimer = NoTimer
    /\ timers = {}
    /\ effect = "permission"
    /\ fetches = {}
    /\ counts = {}
    /\ alert = NoAlert
    /\ stats = [events |-> 0, taps |-> 0, bursts |-> 0, timerCalls |-> 0,
                permission |-> "pending", firstQuery |-> "none",
                initial |-> "none"]
    /\ countOf = NoGame
    /\ lastOp = OtherOp
    /\ probe \in ProbeRegions
    /\ probed = NoBounds

\* const b = regionToBounds(r)
ApplyRegionToBounds ==
    /\ probed = NoBounds
    /\ probed' = regionToBounds(probe)
    /\ UNCHANGED <<loadingLocation, region, loadingGames, games, selected, playerCount,
                   loadingCount, fetchTimer, timers, effect, fetches, counts, alert,
                   stats, countOf, lastOp, probe>>

BoundsNext == ApplyRegionToBounds

BoundsSpec == BoundsInit /\ [][BoundsNext]_vars

\* C14: for a region with positive spans the bounds regionToBounds returns
\* satisfy min <= max on both axes and lie half a span on either side of the
\* centre.
C14_BoundsSymmetric ==
    (probed # NoBounds /\ probe.latitudeDelta > 0 /\ probe.longitudeDelta > 0) =>
        /\ probed.minLat <= probed.maxLat
        /\ probed.minLng <= probed.maxLng
        /\ 2 * (probe.latitude - probed.minLat) = probe.latitudeDelta
        /\ 2 * (probed.maxLat - probe.latitude) = probe.latitudeDelta
        /\ 2 * (probe.longitude - probed.minLng) = probe.longitudeDelta
        /\ 2 * (probed.maxLng - probe.longitude) = probe.longitudeDelta

\* C14 witness: bounds were computed for a region at the antimeridian whose
\* two positive spans differ.
C14_Witness ==
    /\ probed # NoBounds
    /\ probe.longitude = 18000
    /\ probe.latitudeDelta = 6
    /\ probe.longitudeDelta = 36000
    /\ probed.maxLng = 36000

\* C15 as claimed: once obtaining the position has failed, the screen has left
\* the location-pending state (loadingLocation is false) and no call of
\* fetchGamesInRegion has been made.
C15_PositionFailureHandled ==
    effect = "rejected" =>
        /\ loadingLocation = FALSE
        /\ fetches = {}
        /\ ~loadingGames

\* C16 as claimed: the first query issued in a run is that of the initial
\* call (call 0), made on location success.
C16_InitialQueryIsFirst == stats.firstQuery \in {"none", "effect"}

\* C16 amended: the step of location success sets the region to the reported
\* position with spans 0.06, makes the first call of fetchGamesInRegion, for
\* that region, and arms no timer; no query is issued before that step.  The
\* first query of a run is that of the initial call, except when a timer call
\* issues its query after the initial call returned for want of a session, or
\* while the initial call is still suspended at its auth check.
C16_InitialCallImmediate ==
    /\ [](stats.firstQuery # "none" => effect = "fetching")
    /\ [](stats.firstQuery = "effect" => stats.initial = "issued")
    /\ [](stats.initial = "issued" =>
            \/ stats.firstQuery = "effect"
            \/ stats.firstQuery = "timer" /\ stats.timerCalls >= 1)
    /\ [][(effect = "position" /\ effect' = "fetching") =>
            /\ \E c \in Positions :
                  region' = [latitude |-> c.latitude, longitude |-> c.longitude,
                             latitudeDelta |-> 6, longitudeDelta |-> 6]
            /\ loadingLocation' = FALSE
            /\ fetches = {}
            /\ stats.timerCalls = 0
            /\ stats.events = 0
            /\ stats.firstQuery = "none"
            /\ Cardinality(fetches') = 1
            /\ \A f \in fetches' : f.id = 0 /\ f.pc = "auth" /\ f.r = region'
            /\ timers' = {}
            /\ fetchTimer' = NoTimer]_vars
    /\ [][(stats.firstQuery = "none" /\ stats'.firstQuery = "timer") =>
            \/ stats.initial = "no session" /\ (\A g \in fetches : g.id # 0)
            \/ /\ stats.initial = "waiting"
               /\ \E g \in fetches : g.id = 0 /\ g.pc \in {"auth", "checked"} /\ g \in fetches']_vars
    /\ [][(stats.firstQuery = "none" /\ stats.initial = "waiting"
                /\ stats'.initial = "issued") =>
            stats'.firstQuery = "effect"]_vars

\* C16 witness: the initial call's query is in flight and is the first query
\* of the run; no viewport event has happened and no timer is armed.
C16_Witness ==
    /\ effect = "fetching"
    /\ stats.firstQuery = "effect"
    /\ stats.events = 0
    /\ timers = {}
    /\ \E f \in InFlightQueries : f.id = 0 /\ f.r = region

\* C17 as claimed: in every reachable state with no session selected the
\* player count is null.
C17_NoSelectionNoCount == selected = NoGame => playerCount = NoCount

\* C18 as claimed: in every reachable state the games-loading flag is true
\* whenever some session-list query has been sent and not yet answered.
C18_LoadingWhileInFlight == InFlightQueries # {} => loadingGames

\* C19 as claimed: in every reachable state the selected session, when there
\* is one, is a member of the visible session list.
C19_SelectedIsVisible ==
    selected # NoGame => \E i \in 1..Len(games) : games[i] = selected

\* ------------------------------------------------------------------ fairness
\* The runtime lets time pass and fires a timer that is due, and the remote
\* store answers every query and every count fetch it was sent.  Viewport
\* events and marker taps are not required to happen, and stop after MaxInputs.
FairSpec ==
    /\ Spec
    /\ WF_vars(Tick)
    /\ WF_vars(\E t \in timers : TimerFire(t))
    /\ WF_vars(\E f \in fetches, kind \in QueryOutcomes : QueryResponse(f, kind))
    /\ WF_vars(\E c \in counts, kind \in CountOutcomes : CountResponse(c, kind))

\* C20: quiescence.  Once events and taps have stopped, timers fire and
\* responses arrive, the screen eventually reaches and stays in a state with
\* no armed timer, loadingGames false and loadingCount false.
C20_Quiescence == <>[](timers = {} /\ ~loadingGames /\ ~loadingCount)

\* C20 witness: a quiet state after a timer call's query and a marker tap's
\* count fetch have both been answered.
C20_Witness ==
    /\ stats.timerCalls >= 1
    /\ stats.taps >= 1
    /\ stats.firstQuery # "none"
    /\ timers = {}
    /\ fetches = {}
    /\ counts = {}
    /\ ~loadingGames
    /\ ~loadingCount

====
